---- MODULE Spec2Model ----
(***************************************************************************)
(* Model of the in-memory todo application: TaskStorage (src/storage.py)   *)
(* and the five agents (src/agents/*.py) that operate on it.               *)
(*                                                                         *)
(* The caller (TodoApp.run, or a test) makes one call at a time: a call     *)
(* updates the store and leaves its result with the caller (call, ret,     *)
(* pre); the caller then takes the result (Return) and is free to make the *)
(* next call.                                                              *)
(*                                                                         *)
(* A Python str is a sequence of one-character strings (a character that   *)
(* cannot be written in a string here is its Python escape, such as        *)
(* "\\u2028"), so that str.strip() and len() are computed, not assumed.     *)
(* An optional argument (None or a value) is a sequence of length 0 or 1:  *)
(* None is << >> and a provided value v is <<v>>.                          *)
(***************************************************************************)
EXTENDS Integers, Sequences, FiniteSets, TLC

VARIABLES
    _tasks,      \* TaskStorage._tasks: the list of Task objects, by value
    _next_id,    \* TaskStorage._next_id
    call,        \* the call whose result the caller holds: name and arguments
    ret,         \* what that call returned
    pre,         \* the store (_tasks, _next_id) as that call found it
    issued,      \* ids returned by successful adds since the store was built
    issued_since_clear,  \* those returned since the most recent clear()
    threads,     \* the threads sharing the store, each with its position in
                 \* the method it runs and that method's local variables
    legacy,      \* the globals tasks and next_id of the legacy module main.py
    all_valid    \* every call made on both versions so far passed the
                 \* agents' validation

vars ==
    <<_tasks, _next_id, call, ret, pre, issued, issued_since_clear, threads,
      legacy, all_valid>>

----------------------------------------------------------------------------
(* Bounds of the exploration *)

\* add is explored while the id counter is at most MaxId
MaxId == 3

----------------------------------------------------------------------------
(* Limits of the program *)

\* the longest title accepted, after trimming
MaxTitleLen == 100

\* the longest description accepted, after trimming
MaxDescriptionLen == 500

----------------------------------------------------------------------------
(* Python values *)

\* None, as the value of an optional argument
None == << >>

\* an optional argument that was provided
Some(v) == <<v>>

\* a string of n copies of the character c
Rep(c, n) == [i \in 1..n |-> c]

\* the characters str.strip() removes from both ends: every character c with
\* c.isspace().  Besides the blank and the four with an escape of their own
\* these are U+000B, U+001C..U+001F, U+0085, U+00A0 and U+1680, written as
\* themselves, and the spaces U+2000..U+200A, U+2028, U+2029, U+202F, U+205F
\* and U+3000, which cannot stand in a string here and are written as their
\* Python escapes; such an escape is one character of the modelled str
WhitespaceChars ==
    {" ", "\t", "\n", "\r", "\f",
     "", "", "", "", "", "", " ", " ",
     "\\u2000", "\\u2001", "\\u2002", "\\u2003", "\\u2004", "\\u2005",
     "\\u2006", "\\u2007", "\\u2008", "\\u2009", "\\u200a", "\\u2028",
     "\\u2029", "\\u202f", "\\u205f", "\\u3000"}

\* the first position at or after i that holds no whitespace (Len(s)+1: none)
RECURSIVE LeftEnd(_, _)
LeftEnd(s, i) ==
    IF i > Len(s) \/ s[i] \notin WhitespaceChars THEN i ELSE LeftEnd(s, i + 1)

\* the last position at or before i that holds no whitespace (0: none)
RECURSIVE RightEnd(_, _)
RightEnd(s, i) ==
    IF i < 1 \/ s[i] \notin WhitespaceChars THEN i ELSE RightEnd(s, i - 1)

\* str.strip(): drop the leading and the trailing whitespace, keep the inside
Strip(s) == SubSeq(s, LeftEnd(s, 1), RightEnd(s, Len(s)))

\* Task.__init__: a new task is incomplete
Task(task_id, title, description) ==
    [id |-> task_id, title |-> title, description |-> description,
     completed |-> FALSE]

\* the (success, result_or_error) pair an agent returns
Ok(kind, val) == [ok |-> TRUE, payload |-> [kind |-> kind, val |-> val]]
Fail(msg) == [ok |-> FALSE, payload |-> [kind |-> "str", val |-> msg]]

\* the (is_valid, error_message) pair validate_input returns
Valid == [is_valid |-> TRUE, error_msg |-> None]
Invalid(msg) == [is_valid |-> FALSE, error_msg |-> msg]

\* the error texts, as the sequence of their parts
MsgTitleEmpty == <<"Title cannot be empty">>
MsgTitleLong == <<"Title cannot exceed 100 characters">>
MsgDescriptionLong == <<"Description cannot exceed 500 characters">>
MsgIdPositive == <<"Task ID must be positive">>
MsgNoField == <<"Please provide at least one field to update">>
MsgNotFound(task_id) == <<"Task with ID ", task_id, " not found">>

----------------------------------------------------------------------------
(* TaskStorage *)

\* the position of the first task with this id in the list, 0 when there is none
IndexOf(ts, task_id) ==
    LET hits == {i \in 1..Len(ts) : ts[i].id = task_id}
    IN  IF hits = {} THEN 0
        ELSE CHOOSE i \in hits : \A j \in hits : i <= j

\* a removal that fills the hole with the last task instead of closing it
Pop_SwapRemove(ts, i) ==
    IF i = Len(ts) THEN SubSeq(ts, 1, Len(ts) - 1)
    ELSE [SubSeq(ts, 1, Len(ts) - 1) EXCEPT ![i] = ts[Len(ts)]]

\* list.pop(i)
Pop(ts, i) == SubSeq(ts, 1, i - 1) \o SubSeq(ts, i + 1, Len(ts))

\* TaskStorage.remove: the removed task (None when absent) and the list left
StorageRemove(ts, task_id) ==
    LET i == IndexOf(ts, task_id)
    IN  IF i = 0 THEN [task |-> None, tasks |-> ts]
        ELSE [task |-> Some(ts[i]), tasks |-> Pop(ts, i)]

\* TaskStorage.get: the task with this id, None when absent
StorageGet(ts, task_id) ==
    LET i == IndexOf(ts, task_id)
    IN  IF i = 0 THEN None ELSE Some(ts[i])

\* a get_all that hands out the internal list itself
StorageGetAll_NoCopy(ts) == [items |-> ts, is_internal |-> TRUE]

\* TaskStorage.get_all: a new list holding the same task objects in the same
\* order; is_internal tells whether the list handed out is _tasks itself
StorageGetAll(ts) == [items |-> ts, is_internal |-> FALSE]

\* TaskStorage.count
StorageCount(ts) == Len(ts)

\* an add that puts the task at the head of the list
StorageAdd_Prepend(ts, task) == <<task>> \o ts

\* TaskStorage.add
StorageAdd(ts, task) == Append(ts, task)

\* a get_next_id that forgets to advance the counter
StorageGetNextId_NoIncrement(n) == [current_id |-> n, next_id |-> n]

\* TaskStorage.get_next_id: the id handed out and the counter left
StorageGetNextId(n) == [current_id |-> n, next_id |-> n + 1]

----------------------------------------------------------------------------
(* Validation *)

\* AddTaskAgent.validate_input
AddValidateInput(title, description) ==
    IF title = << >> \/ Strip(title) = << >> THEN Invalid(MsgTitleEmpty)
    ELSE IF Len(Strip(title)) > MaxTitleLen THEN Invalid(MsgTitleLong)
    ELSE IF Len(Strip(description)) > MaxDescriptionLen THEN Invalid(MsgDescriptionLong)
    ELSE Valid

\* DeleteTaskAgent.validate_input and MarkCompleteAgent.validate_input (ids
\* are integers here, so the isinstance test passes)
IdValidateInput(task_id) ==
    IF task_id < 1 THEN Invalid(MsgIdPositive) ELSE Valid

\* a validation that lets a blank new title through
UpdateValidateInput_NoBlankCheck(task_id, new_title, new_description) ==
    IF task_id < 1 THEN Invalid(MsgIdPositive)
    ELSE IF new_title = None /\ new_description = None THEN Invalid(MsgNoField)
    ELSE IF new_title # None /\ Len(Strip(new_title[1])) > MaxTitleLen
        THEN Invalid(MsgTitleLong)
    ELSE IF new_description # None
            /\ Len(Strip(new_description[1])) > MaxDescriptionLen
        THEN Invalid(MsgDescriptionLong)
    ELSE Valid

\* a validation that does not ask for at least one field
UpdateValidateInput_NoFieldCheck(task_id, new_title, new_description) ==
    IF task_id < 1 THEN Invalid(MsgIdPositive)
    ELSE IF new_title # None /\ Strip(new_title[1]) = << >>
        THEN Invalid(MsgTitleEmpty)
    ELSE IF new_title # None /\ Len(Strip(new_title[1])) > MaxTitleLen
        THEN Invalid(MsgTitleLong)
    ELSE IF new_description # None
            /\ Len(Strip(new_description[1])) > MaxDescriptionLen
        THEN Invalid(MsgDescriptionLong)
    ELSE Valid

\* UpdateTaskAgent.validate_input (ids are integers here)
UpdateValidateInput(task_id, new_title, new_description) ==
    IF task_id < 1 THEN Invalid(MsgIdPositive)
    ELSE IF new_title = None /\ new_description = None THEN Invalid(MsgNoField)
    ELSE IF new_title # None /\ Strip(new_title[1]) = << >>
        THEN Invalid(MsgTitleEmpty)
    ELSE IF new_title # None /\ Len(Strip(new_title[1])) > MaxTitleLen
        THEN Invalid(MsgTitleLong)
    ELSE IF new_description # None /\ Len(Strip(new_description[1])) > MaxDescriptionLen
        THEN Invalid(MsgDescriptionLong)
    ELSE Valid

----------------------------------------------------------------------------
(* Inputs *)

\* titles a caller passes: empty, blank (a space, a vertical tab, a tab),
\* padded, with inner whitespace, of trimmed length exactly 100 (padded with
\* U+2028 and a no-break space), and of trimmed length 101
TitleInputs ==
    { << >>,
      <<" ", "", "\t">>,
      <<" ", "a", " ", "b", "\n">>,
      <<"\\u2028">> \o Rep("t", MaxTitleLen) \o <<" ">>,
      Rep("t", MaxTitleLen + 1) }

\* descriptions a caller passes: empty, padded with inner whitespace, and of
\* trimmed length one over the limit
DescriptionInputs ==
    { << >>,
      <<"\t", "d", " ", "e", "">>,
      Rep("d", MaxDescriptionLen + 1) }

\* the two filter values ListTaskAgent.execute knows
StrComplete == <<"c", "o", "m", "p", "l", "e", "t", "e">>
StrIncomplete == <<"i", "n">> \o StrComplete

\* filters a caller passes: none, the two known ones, and two unknown ones
\* (another case, a trailing blank)
FilterInputs ==
    { None,
      Some(StrComplete),
      Some(StrIncomplete),
      Some(<<"C">> \o Tail(StrComplete)),
      Some(StrComplete \o <<" ">>) }

\* ids a caller passes: not positive, and every id the counter can have issued
IdInputs == 0..MaxId

OptTitleInputs == {None} \cup {Some(t) : t \in TitleInputs}
OptDescriptionInputs == {None} \cup {Some(d) : d \in DescriptionInputs}
MarkAsInputs == {None, Some(TRUE), Some(FALSE)}

----------------------------------------------------------------------------
(* Operations, as functions of the store s = [tasks, next_id]: each gives   *)
(* the store the call leaves and the pair it returns                       *)

Store == [tasks |-> _tasks, next_id |-> _next_id]

Result(ts, n, r) == [tasks |-> ts, next_id |-> n, ret |-> r]

\* an add that takes its id before it validates
AddTaskExecute_IdBeforeValidation(s, title, description) ==
    LET g == StorageGetNextId(s.next_id)
        v == AddValidateInput(title, description)
        task == Task(g.current_id, Strip(title), Strip(description))
    IN  IF ~v.is_valid
        THEN Result(s.tasks, g.next_id, Fail(v.error_msg))
        ELSE Result(StorageAdd(s.tasks, task), g.next_id, Ok("Task", task))

\* AddTaskAgent.execute(title, description)
AddTaskExecute(s, title, description) ==
    LET v == AddValidateInput(title, description)
        g == StorageGetNextId(s.next_id)
        task == Task(g.current_id, Strip(title), Strip(description))
    IN  IF ~v.is_valid
        THEN Result(s.tasks, s.next_id, Fail(v.error_msg))
        ELSE Result(StorageAdd(s.tasks, task), g.next_id, Ok("Task", task))

\* a delete that hands back whatever remove() gave, found or not
DeleteTaskExecute_ReturnsRemoved(s, task_id) ==
    LET v == IdValidateInput(task_id)
        r == StorageRemove(s.tasks, task_id)
    IN  IF ~v.is_valid
        THEN Result(s.tasks, s.next_id, Fail(v.error_msg))
        ELSE IF r.task = None
        THEN Result(r.tasks, s.next_id,
                    [ok |-> FALSE,
                     payload |-> [kind |-> "NoneType", val |-> None]])
        ELSE Result(r.tasks, s.next_id, Ok("Task", r.task[1]))

\* a delete that removes first and validates the id afterwards
DeleteTaskExecute_LooksUpFirst(s, task_id) ==
    LET r == StorageRemove(s.tasks, task_id)
        v == IdValidateInput(task_id)
    IN  IF r.task = None
        THEN Result(r.tasks, s.next_id, Fail(MsgNotFound(task_id)))
        ELSE IF ~v.is_valid
        THEN Result(r.tasks, s.next_id, Fail(v.error_msg))
        ELSE Result(r.tasks, s.next_id, Ok("Task", r.task[1]))

\* DeleteTaskAgent.execute(task_id)
DeleteTaskExecute(s, task_id) ==
    LET v == IdValidateInput(task_id)
        r == StorageRemove(s.tasks, task_id)
    IN  IF ~v.is_valid
        THEN Result(s.tasks, s.next_id, Fail(v.error_msg))
        ELSE IF r.task = None
        THEN Result(r.tasks, s.next_id, Fail(MsgNotFound(task_id)))
        ELSE Result(r.tasks, s.next_id, Ok("Task", r.task[1]))

\* an update that writes the title before it checks the description
UpdateTaskExecute_WritesTitleFirst(s, task_id, new_title, new_description) ==
    LET i == IndexOf(s.tasks, task_id)
        t1 == IF new_title # None
              THEN [s.tasks[i] EXCEPT !.title = Strip(new_title[1])]
              ELSE s.tasks[i]
        t2 == IF new_description # None
              THEN [t1 EXCEPT !.description = Strip(new_description[1])]
              ELSE t1
    IN  IF task_id < 1 THEN Result(s.tasks, s.next_id, Fail(MsgIdPositive))
        ELSE IF new_title = None /\ new_description = None
        THEN Result(s.tasks, s.next_id, Fail(MsgNoField))
        ELSE IF new_title # None /\ Strip(new_title[1]) = << >>
        THEN Result(s.tasks, s.next_id, Fail(MsgTitleEmpty))
        ELSE IF new_title # None /\ Len(Strip(new_title[1])) > MaxTitleLen
        THEN Result(s.tasks, s.next_id, Fail(MsgTitleLong))
        ELSE IF i = 0
        THEN Result(s.tasks, s.next_id, Fail(MsgNotFound(task_id)))
        ELSE IF new_description # None
                /\ Len(Strip(new_description[1])) > MaxDescriptionLen
        THEN Result([s.tasks EXCEPT ![i] = t1], s.next_id,
                    Fail(MsgDescriptionLong))
        ELSE Result([s.tasks EXCEPT ![i] = t2], s.next_id, Ok("Task", t2))

\* an update that builds a new Task from the fields instead of writing them
UpdateTaskExecute_Rebuilds(s, task_id, new_title, new_description) ==
    LET v == UpdateValidateInput(task_id, new_title, new_description)
        i == IndexOf(s.tasks, task_id)
        t == Task(task_id,
                  IF new_title # None THEN Strip(new_title[1])
                  ELSE s.tasks[i].title,
                  IF new_description # None THEN Strip(new_description[1])
                  ELSE s.tasks[i].description)
    IN  IF ~v.is_valid
        THEN Result(s.tasks, s.next_id, Fail(v.error_msg))
        ELSE IF i = 0
        THEN Result(s.tasks, s.next_id, Fail(MsgNotFound(task_id)))
        ELSE Result([s.tasks EXCEPT ![i] = t], s.next_id, Ok("Task", t))

\* an update that skips a blank new title instead of rejecting it
UpdateTaskExecute_IgnoresBlankTitle(s, task_id, new_title, new_description) ==
    LET i == IndexOf(s.tasks, task_id)
        t1 == IF new_title # None /\ Strip(new_title[1]) # << >>
              THEN [s.tasks[i] EXCEPT !.title = Strip(new_title[1])]
              ELSE s.tasks[i]
        t2 == IF new_description # None
              THEN [t1 EXCEPT !.description = Strip(new_description[1])]
              ELSE t1
    IN  IF new_title = None /\ new_description = None
        THEN Result(s.tasks, s.next_id, Fail(MsgNoField))
        ELSE IF i = 0
        THEN Result(s.tasks, s.next_id, Fail(MsgNotFound(task_id)))
        ELSE Result([s.tasks EXCEPT ![i] = t2], s.next_id, Ok("Task", t2))

\* UpdateTaskAgent.execute(task_id, new_title, new_description): the task
\* fetched is the object in the list, so writing its fields writes the list
UpdateTaskExecute(s, task_id, new_title, new_description) ==
    LET v == UpdateValidateInput(task_id, new_title, new_description)
        i == IndexOf(s.tasks, task_id)
        t1 == IF new_title # None
              THEN [s.tasks[i] EXCEPT !.title = Strip(new_title[1])]
              ELSE s.tasks[i]
        t2 == IF new_description # None
              THEN [t1 EXCEPT !.description = Strip(new_description[1])]
              ELSE t1
    IN  IF ~v.is_valid
        THEN Result(s.tasks, s.next_id, Fail(v.error_msg))
        ELSE IF StorageGet(s.tasks, task_id) = None
        THEN Result(s.tasks, s.next_id, Fail(MsgNotFound(task_id)))
        ELSE Result([s.tasks EXCEPT ![i] = t2], s.next_id, Ok("Task", t2))

\* a toggle that marks the task complete whatever it was
MarkCompleteExecute_AlwaysSets(s, task_id, mark_as) ==
    LET v == IdValidateInput(task_id)
        i == IndexOf(s.tasks, task_id)
        t == [s.tasks[i] EXCEPT !.completed =
                 IF mark_as # None THEN mark_as[1] ELSE TRUE]
    IN  IF ~v.is_valid
        THEN Result(s.tasks, s.next_id, Fail(v.error_msg))
        ELSE IF i = 0
        THEN Result(s.tasks, s.next_id, Fail(MsgNotFound(task_id)))
        ELSE Result([s.tasks EXCEPT ![i] = t], s.next_id, Ok("Task", t))

\* a toggle that tests mark_as for truth, so that False means "toggle"
MarkCompleteExecute_FalseToggles(s, task_id, mark_as) ==
    LET v == IdValidateInput(task_id)
        i == IndexOf(s.tasks, task_id)
        t == [s.tasks[i] EXCEPT !.completed =
                 IF mark_as # None /\ mark_as[1] THEN TRUE
                 ELSE ~s.tasks[i].completed]
    IN  IF ~v.is_valid
        THEN Result(s.tasks, s.next_id, Fail(v.error_msg))
        ELSE IF i = 0
        THEN Result(s.tasks, s.next_id, Fail(MsgNotFound(task_id)))
        ELSE Result([s.tasks EXCEPT ![i] = t], s.next_id, Ok("Task", t))

\* a toggle that takes the task out of the list and puts the changed one at
\* its end
MarkCompleteExecute_MovesToEnd(s, task_id, mark_as) ==
    LET v == IdValidateInput(task_id)
        i == IndexOf(s.tasks, task_id)
        t == [s.tasks[i] EXCEPT !.completed =
                 IF mark_as # None THEN mark_as[1] ELSE ~s.tasks[i].completed]
    IN  IF ~v.is_valid
        THEN Result(s.tasks, s.next_id, Fail(v.error_msg))
        ELSE IF StorageGet(s.tasks, task_id) = None
        THEN Result(s.tasks, s.next_id, Fail(MsgNotFound(task_id)))
        ELSE Result(Append(Pop(s.tasks, i), t), s.next_id, Ok("Task", t))

\* MarkCompleteAgent.execute(task_id, mark_as): writes the fetched object too
MarkCompleteExecute(s, task_id, mark_as) ==
    LET v == IdValidateInput(task_id)
        i == IndexOf(s.tasks, task_id)
        t == [s.tasks[i] EXCEPT !.completed =
                 IF mark_as # None THEN mark_as[1] ELSE ~s.tasks[i].completed]
    IN  IF ~v.is_valid
        THEN Result(s.tasks, s.next_id, Fail(v.error_msg))
        ELSE IF StorageGet(s.tasks, task_id) = None
        THEN Result(s.tasks, s.next_id, Fail(MsgNotFound(task_id)))
        ELSE Result([s.tasks EXCEPT ![i] = t], s.next_id, Ok("Task", t))

\* the tasks of a list that are completed, and those that are not, in order
Completed(task) == task.completed
NotCompleted(task) == ~task.completed

\* a listing whose two filters are exchanged
ListTaskExecute_FiltersExchanged(s, filter_status) ==
    LET tasks == StorageGetAll(s.tasks).items
    IN  IF filter_status = Some(StrComplete)
        THEN Result(s.tasks, s.next_id,
                    Ok("list", SelectSeq(tasks, NotCompleted)))
        ELSE IF filter_status = Some(StrIncomplete)
        THEN Result(s.tasks, s.next_id, Ok("list", SelectSeq(tasks, Completed)))
        ELSE Result(s.tasks, s.next_id, Ok("list", tasks))

\* a listing that reports a filter it does not know
ListTaskExecute_UnknownFilterFails(s, filter_status) ==
    LET tasks == StorageGetAll(s.tasks).items
    IN  IF filter_status = Some(StrComplete)
        THEN Result(s.tasks, s.next_id, Ok("list", SelectSeq(tasks, Completed)))
        ELSE IF filter_status = Some(StrIncomplete)
        THEN Result(s.tasks, s.next_id,
                    Ok("list", SelectSeq(tasks, NotCompleted)))
        ELSE IF filter_status = None
        THEN Result(s.tasks, s.next_id, Ok("list", tasks))
        ELSE Result(s.tasks, s.next_id, Fail(<<"Unknown filter">>))

\* a listing that filters the store's own list instead of a copy of it
ListTaskExecute_FiltersInPlace(s, filter_status) ==
    LET tasks == IF filter_status = Some(StrComplete)
                 THEN SelectSeq(s.tasks, Completed)
                 ELSE IF filter_status = Some(StrIncomplete)
                 THEN SelectSeq(s.tasks, NotCompleted)
                 ELSE s.tasks
    IN  Result(tasks, s.next_id, Ok("list", tasks))

\* ListTaskAgent.execute(filter_status)
ListTaskExecute(s, filter_status) ==
    LET tasks == StorageGetAll(s.tasks).items
    IN  IF filter_status = Some(StrComplete)
        THEN Result(s.tasks, s.next_id, Ok("list", SelectSeq(tasks, Completed)))
        ELSE IF filter_status = Some(StrIncomplete)
        THEN Result(s.tasks, s.next_id,
                    Ok("list", SelectSeq(tasks, NotCompleted)))
        ELSE Result(s.tasks, s.next_id, Ok("list", tasks))

\* the dict get_task_summary returns
Summary(total, complete, incomplete) ==
    [total |-> total, complete |-> complete, incomplete |-> incomplete]

\* a summary whose incomplete count is taken over every task
GetTaskSummary_IncompleteCountsAll(s) ==
    LET tasks == StorageGetAll(s.tasks).items
        complete == Len(SelectSeq(tasks, Completed))
        incomplete == Len(tasks)
    IN  Result(s.tasks, s.next_id, Summary(Len(tasks), complete, incomplete))

\* ListTaskAgent.get_task_summary()
GetTaskSummary(s) ==
    LET tasks == StorageGetAll(s.tasks).items
        complete == Len(SelectSeq(tasks, Completed))
        incomplete == Len(SelectSeq(tasks, NotCompleted))
    IN  Result(s.tasks, s.next_id, Summary(Len(tasks), complete, incomplete))

\* a clear that empties the list and leaves the counter where it was
StorageClear_KeepsCounter(s) == Result(<< >>, s.next_id, [kind |-> "NoneType"])

\* a clear that resets the counter and leaves the tasks in the list
StorageClear_KeepsTasks(s) == Result(s.tasks, 1, [kind |-> "NoneType"])

\* TaskStorage.clear()
StorageClear(s) == Result(<< >>, 1, [kind |-> "NoneType"])

----------------------------------------------------------------------------
(* The state machine *)

\* the caller holds no result
Idle == [op |-> "idle"]

\* the globals of the legacy module main.py as it is imported:
\* tasks = [] and next_id = 1
LegacyEmpty == [tasks |-> << >>, next_id |-> 1]

\* the application as shipped runs in one thread (main_v2.py)
NoThreads == << >>

Init ==
    /\ _tasks = << >>
    /\ _next_id = 1
    /\ call = Idle
    /\ ret = [kind |-> "NoneType"]
    /\ pre = [tasks |-> << >>, next_id |-> 1]
    /\ issued = {}
    /\ issued_since_clear = {}
    /\ threads = NoThreads
    /\ legacy = LegacyEmpty
    /\ all_valid = TRUE

\* the caller, holding no result, makes the call c, which does r
Call(c, r) ==
    /\ call = Idle
    /\ call' = c
    /\ pre' = Store
    /\ _tasks' = r.tasks
    /\ _next_id' = r.next_id
    /\ ret' = r.ret
    /\ UNCHANGED threads

AddTask(title, description) ==
    /\ Call([op |-> "add", title |-> title, description |-> description],
            AddTaskExecute(Store, title, description))
    /\ issued' = IF ret'.ok THEN issued \cup {ret'.payload.val.id} ELSE issued
    /\ issued_since_clear' =
           IF ret'.ok THEN issued_since_clear \cup {ret'.payload.val.id}
           ELSE issued_since_clear
    /\ UNCHANGED <<legacy, all_valid>>

DeleteTask(task_id) ==
    /\ Call([op |-> "delete", task_id |-> task_id],
            DeleteTaskExecute(Store, task_id))
    /\ UNCHANGED <<issued, issued_since_clear, legacy, all_valid>>

UpdateTask(task_id, new_title, new_description) ==
    /\ Call([op |-> "update", task_id |-> task_id, new_title |-> new_title,
             new_description |-> new_description],
            UpdateTaskExecute(Store, task_id, new_title, new_description))
    /\ UNCHANGED <<issued, issued_since_clear, legacy, all_valid>>

MarkComplete(task_id, mark_as) ==
    /\ Call([op |-> "toggle", task_id |-> task_id, mark_as |-> mark_as],
            MarkCompleteExecute(Store, task_id, mark_as))
    /\ UNCHANGED <<issued, issued_since_clear, legacy, all_valid>>

Clear ==
    /\ Call([op |-> "clear"], StorageClear(Store))
    /\ issued_since_clear' = {}
    /\ UNCHANGED <<issued, legacy, all_valid>>

ListTasks(filter_status) ==
    /\ Call([op |-> "list", filter_status |-> filter_status],
            ListTaskExecute(Store, filter_status))
    /\ UNCHANGED <<issued, issued_since_clear, legacy, all_valid>>

TaskSummary ==
    /\ Call([op |-> "summary"], GetTaskSummary(Store))
    /\ UNCHANGED <<issued, issued_since_clear, legacy, all_valid>>

\* what a caller can do to a list it holds
Mutations == {"append", "remove", "reverse"}

Reverse(l) == [i \in 1..Len(l) |-> l[Len(l) + 1 - i]]

\* list.append(task), list.pop(0), list.reverse() on the list l
ListMutate(l, m) ==
    CASE m = "append"  -> Append(l, Task(0, <<"x">>, << >>))
      [] m = "remove"  -> Tail(l)
      [] m = "reverse" -> Reverse(l)

\* TaskStorage.get(task_id): the caller is handed the task or None
GetTask(task_id) ==
    /\ Call([op |-> "get", task_id |-> task_id],
            Result(_tasks, _next_id,
                   [kind |-> "Optional[Task]",
                    val |-> StorageGet(_tasks, task_id)]))
    /\ UNCHANGED <<issued, issued_since_clear, legacy, all_valid>>

\* TaskStorage.count(): the caller is handed the number of stored tasks
Count ==
    /\ Call([op |-> "count"],
            Result(_tasks, _next_id,
                   [kind |-> "int", val |-> StorageCount(_tasks)]))
    /\ UNCHANGED <<issued, issued_since_clear, legacy, all_valid>>

\* TaskStorage.get_all(): the caller is handed a list of the stored tasks
GetAll ==
    /\ LET g == StorageGetAll(_tasks)
       IN  Call([op |-> "get_all", mutation |-> "none"],
                Result(_tasks, _next_id,
                       [kind |-> "list", val |-> g.items,
                        is_internal |-> g.is_internal]))
    /\ UNCHANGED <<issued, issued_since_clear, legacy, all_valid>>

\* the caller changes the list get_all handed out; the store's list changes
\* with it exactly when the two are one object
MutateReturned(m) ==
    /\ call.op = "get_all" /\ call.mutation = "none"
    /\ m = "remove" => ret.val # << >>
    /\ call' = [call EXCEPT !.mutation = m]
    /\ ret' = [ret EXCEPT !.val = ListMutate(ret.val, m)]
    /\ _tasks' = IF ret.is_internal THEN ListMutate(ret.val, m) ELSE _tasks
    /\ UNCHANGED <<_next_id, pre, issued, issued_since_clear, threads,
                   legacy, all_valid>>

\* the caller takes the result of its call and goes back to its loop
Return ==
    /\ call # Idle
    /\ call' = Idle
    /\ ret' = [kind |-> "NoneType"]
    /\ pre' = Store
    /\ UNCHANGED <<_tasks, _next_id, issued, issued_since_clear, threads,
                   legacy, all_valid>>

Next ==
    \/ \E title \in TitleInputs, description \in DescriptionInputs :
           _next_id <= MaxId /\ AddTask(title, description)
    \/ \E task_id \in IdInputs : DeleteTask(task_id)
    \/ \E task_id \in IdInputs, new_title \in OptTitleInputs,
          new_description \in OptDescriptionInputs :
           UpdateTask(task_id, new_title, new_description)
    \/ \E task_id \in IdInputs, mark_as \in MarkAsInputs :
           MarkComplete(task_id, mark_as)
    \/ \E filter_status \in FilterInputs : ListTasks(filter_status)
    \/ TaskSummary
    \/ \E task_id \in IdInputs : GetTask(task_id)
    \/ GetAll
    \/ Count
    \/ \E m \in Mutations : MutateReturned(m)
    \/ Clear
    \/ Return

Spec == Init /\ [][Next]_vars

----------------------------------------------------------------------------
(* Vocabulary of the properties *)

\* the spec's data model: a title has 1..100 characters after trimming
ValidTitle(title) ==
    Len(Strip(title)) >= 1 /\ Len(Strip(title)) <= MaxTitleLen

\* the spec's data model: a description has 0..500 characters after trimming
ValidDescription(description) == Len(Strip(description)) <= MaxDescriptionLen

\* the two kinds of error of the spec's taxonomy
InvalidInputMsgs ==
    {MsgTitleEmpty, MsgTitleLong, MsgDescriptionLong, MsgIdPositive, MsgNoField}
IsInvalidInput(r) ==
    ~r.ok /\ r.payload.kind = "str" /\ r.payload.val \in InvalidInputMsgs
IsNotFound(r, task_id) ==
    ~r.ok /\ r.payload.kind = "str" /\ r.payload.val = MsgNotFound(task_id)

\* the ids of a list of tasks, in order
Ids(ts) == [i \in 1..Len(ts) |-> ts[i].id]

\* a list without its i-th element, the others in their order
Without(ts, i) ==
    [j \in 1..(Len(ts) - 1) |-> IF j < i THEN ts[j] ELSE ts[j + 1]]

\* the most recent call is this operation, and the caller holds its result
Called(op) == call.op = op

----------------------------------------------------------------------------
(* C1 *)

\* C1 as stated: every successful add returns an id that no earlier
\* successful add on this store returned, over any sequence of operations
\* that may include TaskStorage.clear.
C1_IdNeverReturnedBefore ==
    [][(call'.op = "add" /\ ret'.ok) => ret'.payload.val.id \notin issued]_vars

\* C1, amended: every successful add returns an id that no earlier successful
\* add returned since the most recent TaskStorage.clear (since construction if
\* the store was never cleared); in particular an id is never reused after a
\* deletion.
C1_IdFreshSinceClear ==
    [][(call'.op = "add" /\ ret'.ok)
          => ret'.payload.val.id \notin issued_since_clear]_vars

\* a successful add on a store from which an earlier id has been deleted
C1_Witness ==
    /\ Called("add") /\ ret.ok
    /\ \E id \in issued_since_clear :
           id < ret.payload.val.id /\ StorageGet(_tasks, id) = None

----------------------------------------------------------------------------
(* C2 *)

\* C2: for every valid (title, description) and every reachable store, add
\* returns (True, task) with task.id the counter's value before the call, the
\* counter one greater afterwards, the task appended as the last element of
\* the list, and task.completed false.
C2_AddReturnsCounter ==
    (Called("add") /\ ValidTitle(call.title)
        /\ ValidDescription(call.description))
    => /\ ret.ok
       /\ ret.payload.kind = "Task"
       /\ ret.payload.val.id = pre.next_id
       /\ _next_id = pre.next_id + 1
       /\ Len(_tasks) = Len(pre.tasks) + 1
       /\ SubSeq(_tasks, 1, Len(pre.tasks)) = pre.tasks
       /\ _tasks[Len(_tasks)] = ret.payload.val
       /\ ret.payload.val.completed = FALSE

\* a valid add on a store that holds tasks and has lost one to a deletion
C2_Witness ==
    /\ Called("add") /\ ret.ok
    /\ Len(pre.tasks) >= 1
    /\ pre.next_id > Len(pre.tasks) + 1

----------------------------------------------------------------------------
(* C3 *)

\* C3: an add, delete, update or toggle that returns ok=false leaves the
\* store as it was: the same tasks in the same order with the same fields,
\* and the same id counter.
C3_FailureLeavesStore ==
    (call.op \in {"add", "delete", "update", "toggle"} /\ ~ret.ok)
    => /\ _tasks = pre.tasks
       /\ _next_id = pre.next_id

\* an update of a stored task that fails on its description alone, with a new
\* title that would have been written
C3_Witness ==
    /\ Called("update") /\ ~ret.ok
    /\ StorageGet(pre.tasks, call.task_id) # None
    /\ call.new_title # None /\ ValidTitle(call.new_title[1])
    /\ Strip(call.new_title[1]) # StorageGet(pre.tasks, call.task_id)[1].title
    /\ ret.payload.val = MsgDescriptionLong

----------------------------------------------------------------------------
(* C4 *)

\* C4: add with an empty or whitespace-only title, with a trimmed title
\* longer than 100 or with a trimmed description longer than 500 returns
\* ok=false with an error message and leaves the store unchanged: count() is
\* unchanged and the counter is not consumed, so the next successful add gets
\* the id it would have got without the failed call.
C4_InvalidAddRejected ==
    (Called("add") /\ ~(ValidTitle(call.title)
                         /\ ValidDescription(call.description)))
    => /\ ~ret.ok
       /\ ret.payload.kind = "str"
       /\ ret.payload.val # << >>
       /\ Len(_tasks) = Len(pre.tasks)
       /\ _tasks = pre.tasks
       /\ _next_id = pre.next_id
       /\ \A t \in TitleInputs, d \in DescriptionInputs :
              LET after == AddTaskExecute(Store, t, d)
                  instead == AddTaskExecute(pre, t, d)
              IN  after.ret.ok
                  => /\ instead.ret.ok
                     /\ after.ret.payload.val.id = instead.ret.payload.val.id
                     /\ after.ret.payload.val.id = pre.next_id

\* a whitespace-only title rejected on a store that holds a task
C4_Witness ==
    /\ Called("add") /\ ~ret.ok
    /\ call.title # << >> /\ Strip(call.title) = << >>
    /\ Len(pre.tasks) >= 1

----------------------------------------------------------------------------
(* C5 *)

\* C5: a successful delete(id) returns the removed task; afterwards get(id)
\* finds nothing, count() is one less, the remaining tasks keep their
\* relative order, and a subsequent add returns a fresh id greater than the
\* deleted one.
C5_DeleteRemovesOne ==
    (Called("delete") /\ ret.ok)
    => LET i == IndexOf(pre.tasks, call.task_id)
       IN  /\ i > 0
           /\ ret.payload.kind = "Task"
           /\ ret.payload.val = pre.tasks[i]
           /\ ret.payload.val.id = call.task_id
           /\ StorageGet(_tasks, call.task_id) = None
           /\ Len(_tasks) = Len(pre.tasks) - 1
           /\ _tasks = Without(pre.tasks, i)
           /\ \A t \in TitleInputs, d \in DescriptionInputs :
                  LET a == AddTaskExecute(Store, t, d)
                  IN  a.ret.ok => a.ret.payload.val.id > call.task_id

\* ids [1,2,3] stored, 2 deleted: [1,3] is left
C5_Witness ==
    /\ Called("delete") /\ ret.ok
    /\ call.task_id = 2
    /\ Ids(pre.tasks) = <<1, 2, 3>>
    /\ Ids(_tasks) = <<1, 3>>

----------------------------------------------------------------------------
(* C6 *)

\* C6: in every reachable state every stored title is non-empty, equal to its
\* own trimmed form, and 1 to 100 characters long.
C6_StoredTitlesValid ==
    \A i \in 1..Len(_tasks) :
        /\ _tasks[i].title # << >>
        /\ Strip(_tasks[i].title) = _tasks[i].title
        /\ Len(_tasks[i].title) >= 1
        /\ Len(_tasks[i].title) <= MaxTitleLen

\* an update has just written a padded title of trimmed length 100
C6_Witness ==
    /\ Called("update") /\ ret.ok
    /\ call.new_title # None
    /\ Len(call.new_title[1]) > MaxTitleLen
    /\ Len(ret.payload.val.title) = MaxTitleLen

----------------------------------------------------------------------------
(* C7 *)

\* C7: a successful update changes only the provided fields of the task with
\* that id, stored trimmed; an omitted title or description is unchanged, and
\* the task's id, completed flag and position, every other task and the id
\* counter are unchanged.
C7_UpdateWritesOnlyGivenFields ==
    (Called("update") /\ ret.ok)
    => LET i == IndexOf(pre.tasks, call.task_id)
       IN  /\ i > 0
           /\ Len(_tasks) = Len(pre.tasks)
           /\ \A j \in 1..Len(_tasks) : j # i => _tasks[j] = pre.tasks[j]
           /\ _tasks[i].id = pre.tasks[i].id
           /\ _tasks[i].id = call.task_id
           /\ _tasks[i].completed = pre.tasks[i].completed
           /\ _tasks[i].title =
                  IF call.new_title = None THEN pre.tasks[i].title
                  ELSE Strip(call.new_title[1])
           /\ _tasks[i].description =
                  IF call.new_description = None THEN pre.tasks[i].description
                  ELSE Strip(call.new_description[1])
           /\ _next_id = pre.next_id
           /\ ret.payload.val = _tasks[i]

\* a description-only update of a completed task that is not the only one
C7_Witness ==
    /\ Called("update") /\ ret.ok
    /\ call.new_title = None
    /\ Len(_tasks) >= 2
    /\ ret.payload.val.completed
    /\ ret.payload.val.description
           # StorageGet(pre.tasks, call.task_id)[1].description

----------------------------------------------------------------------------
(* C8 *)

\* C8: update(id) with both the title and the description omitted fails with
\* an InvalidInput message for every positive id, whether or not a task with
\* that id exists, and mutates nothing.
C8_UpdateNeedsAField ==
    (Called("update") /\ call.task_id >= 1
        /\ call.new_title = None /\ call.new_description = None)
    => /\ IsInvalidInput(ret)
       /\ _tasks = pre.tasks
       /\ _next_id = pre.next_id

\* such an update of a positive id that no task of a non-empty store has
C8_Witness ==
    /\ Called("update") /\ ~ret.ok
    /\ call.new_title = None /\ call.new_description = None
    /\ call.task_id >= 1
    /\ Len(_tasks) >= 1
    /\ StorageGet(_tasks, call.task_id) = None

----------------------------------------------------------------------------
(* C9 *)

\* C9: an update whose provided title is empty after trimming fails with
\* InvalidInput and leaves the task's title and description unchanged, even
\* when a valid new description comes with it.
C9_BlankTitleRejected ==
    (Called("update") /\ call.new_title # None
        /\ Strip(call.new_title[1]) = << >>)
    => /\ IsInvalidInput(ret)
       /\ (call.task_id >= 1 => ret.payload.val = MsgTitleEmpty)
       /\ _tasks = pre.tasks

\* a blank title with a valid new description, for a stored task whose
\* description differs from it
C9_Witness ==
    /\ Called("update") /\ ~ret.ok
    /\ call.new_title # None /\ Strip(call.new_title[1]) = << >>
    /\ call.new_description # None
    /\ ValidDescription(call.new_description[1])
    /\ StorageGet(_tasks, call.task_id) # None
    /\ StorageGet(_tasks, call.task_id)[1].description
           # Strip(call.new_description[1])

----------------------------------------------------------------------------
(* C10 *)

\* C10: for a stored task, toggle(id) with no explicit state succeeds and
\* flips completed, and a second such call right after it succeeds too and
\* returns completed to its original value.
C10_ToggleTwiceRestores ==
    (Called("toggle") /\ call.mark_as = None
        /\ StorageGet(pre.tasks, call.task_id) # None)
    => LET i == IndexOf(pre.tasks, call.task_id)
           second == MarkCompleteExecute(Store, call.task_id, None)
       IN  /\ ret.ok
           /\ ret.payload.val.completed = ~pre.tasks[i].completed
           /\ _tasks[i].completed = ~pre.tasks[i].completed
           /\ second.ret.ok
           /\ second.ret.payload.val.completed = pre.tasks[i].completed
           /\ second.tasks[i].completed = pre.tasks[i].completed

\* a toggle of a completed task, which a second toggle completes again
C10_Witness ==
    /\ Called("toggle") /\ call.mark_as = None /\ ret.ok
    /\ StorageGet(pre.tasks, call.task_id)[1].completed
    /\ ~ret.payload.val.completed

----------------------------------------------------------------------------
(* C11 *)

\* C11: toggle(id, mark_as=b) on a stored task succeeds and sets completed to
\* b whatever it was before (mark_as=False is an explicit state, not
\* "toggle"), and the same call made again succeeds and leaves the store as
\* the first call left it.
C11_ExplicitStateIsSet ==
    (Called("toggle") /\ call.mark_as # None
        /\ StorageGet(pre.tasks, call.task_id) # None)
    => LET i == IndexOf(pre.tasks, call.task_id)
           again == MarkCompleteExecute(Store, call.task_id, call.mark_as)
       IN  /\ ret.ok
           /\ ret.payload.val.completed = call.mark_as[1]
           /\ _tasks[i].completed = call.mark_as[1]
           /\ again.ret.ok
           /\ again.ret = ret
           /\ again.tasks = _tasks
           /\ again.next_id = _next_id

\* mark_as=False on a task that was already incomplete
C11_Witness ==
    /\ Called("toggle") /\ ret.ok
    /\ call.mark_as = Some(FALSE)
    /\ ~StorageGet(pre.tasks, call.task_id)[1].completed
    /\ ~ret.payload.val.completed

----------------------------------------------------------------------------
(* C12 *)

\* the positions of a list whose task has this completed value
Positions(ts, want) == {i \in 1..Len(ts) : ts[i].completed = want}

\* r holds exactly the tasks of ts with this completed value, in ts's order:
\* its k-th element is the k-th such task of ts
ListsExactly(r, ts, want) ==
    /\ Len(r) = Cardinality(Positions(ts, want))
    /\ \A k \in 1..Len(r) :
           \E i \in Positions(ts, want) :
               /\ r[k] = ts[i]
               /\ Cardinality({j \in Positions(ts, want) : j < i}) = k - 1

\* C12: in every reachable state list('complete') returns exactly the stored
\* tasks with completed true, list('incomplete') exactly those with completed
\* false and list() all stored tasks, each in insertion order, and the call
\* always succeeds.
C12_ListFilters ==
    Called("list")
    => /\ ret.ok
       /\ ret.payload.kind = "list"
       /\ (call.filter_status = Some(StrComplete)
              => ListsExactly(ret.payload.val, pre.tasks, TRUE))
       /\ (call.filter_status = Some(StrIncomplete)
              => ListsExactly(ret.payload.val, pre.tasks, FALSE))
       /\ (call.filter_status = None => ret.payload.val = pre.tasks)

\* list('complete') of three tasks of which the middle one is incomplete
C12_Witness ==
    /\ Called("list") /\ call.filter_status = Some(StrComplete)
    /\ Len(pre.tasks) = 3
    /\ ~pre.tasks[2].completed
    /\ Len(ret.payload.val) = 2
    /\ Ids(ret.payload.val) = <<pre.tasks[1].id, pre.tasks[3].id>>

----------------------------------------------------------------------------
(* C13 *)

\* C13: in every reachable state get_task_summary returns total = the number
\* of stored tasks, complete = the number with completed true, incomplete =
\* the number with completed false, so total = complete + incomplete.
C13_SummaryCounts ==
    Called("summary")
    => /\ ret.total = Len(pre.tasks)
       /\ ret.complete = Cardinality(Positions(pre.tasks, TRUE))
       /\ ret.incomplete = Cardinality(Positions(pre.tasks, FALSE))
       /\ ret.total = ret.complete + ret.incomplete

\* three tasks of which one is complete: {total: 3, complete: 1, incomplete: 2}
C13_Witness ==
    /\ Called("summary")
    /\ ret = Summary(3, 1, 2)

----------------------------------------------------------------------------
(* C14 *)

\* the five operations of the agents
AgentOps == {"add", "delete", "update", "toggle", "list"}

\* C14: every call of the five operations returns a pair (ok, payload) in
\* which ok=true comes with the produced entity (the task added, removed,
\* updated or toggled; the task sequence for list) and ok=false comes with a
\* non-empty error string; never success with an error string, failure with
\* an entity, or failure with nothing.
C14_ResultConvention ==
    (call.op \in AgentOps)
    => /\ ret.ok \in BOOLEAN
       /\ ret.ok
            => /\ call.op = "list" => ret.payload.kind = "list"
               /\ call.op # "list" => ret.payload.kind = "Task"
               /\ call.op = "add"
                    => ret.payload.val = _tasks[Len(_tasks)]
               /\ call.op = "delete"
                    => ret.payload.val
                         = pre.tasks[IndexOf(pre.tasks, call.task_id)]
               /\ call.op \in {"update", "toggle"}
                    => ret.payload.val = _tasks[IndexOf(_tasks, call.task_id)]
       /\ ~ret.ok
            => /\ ret.payload.kind = "str"
               /\ Len(ret.payload.val) >= 1
               /\ ret.payload.val[1] # ""

\* a delete that fails on a store that holds tasks, with its message
C14_Witness ==
    /\ Called("delete") /\ ~ret.ok
    /\ Len(pre.tasks) >= 1
    /\ ret.payload.val = MsgNotFound(call.task_id)

----------------------------------------------------------------------------
(* C15 *)

\* the operations that take an id
IdOps == {"delete", "update", "toggle"}

\* the arguments of an update other than the id pass its validation
UpdateFieldsValid(new_title, new_description) ==
    /\ ~(new_title = None /\ new_description = None)
    /\ new_title # None => ValidTitle(new_title[1])
    /\ new_description # None => ValidDescription(new_description[1])

\* C15 as stated: delete, update and toggle with an id below 1 fail with an
\* InvalidInput message, never NotFound; with a positive id that matches no
\* stored task they fail with a NotFound message naming that id.
C15_IdErrorsAsStated ==
    (call.op \in IdOps)
    => /\ call.task_id < 1
            => IsInvalidInput(ret) /\ ~IsNotFound(ret, call.task_id)
       /\ (call.task_id >= 1 /\ StorageGet(pre.tasks, call.task_id) = None)
            => IsNotFound(ret, call.task_id)

\* C15, amended: delete, update and toggle with an id below 1 fail with the
\* InvalidInput message "Task ID must be positive", never NotFound, whatever
\* the store holds, and the store is untouched; with a positive id that
\* matches no stored task, delete and toggle fail with a NotFound message
\* naming that id, and so does an update whose other arguments are valid,
\* while an update whose other arguments are invalid fails with InvalidInput.
C15_IdErrors ==
    (call.op \in IdOps)
    => /\ call.task_id < 1
            => /\ IsInvalidInput(ret)
               /\ ret.payload.val = MsgIdPositive
               /\ ~IsNotFound(ret, call.task_id)
               /\ _tasks = pre.tasks
       /\ (call.task_id >= 1 /\ StorageGet(pre.tasks, call.task_id) = None)
            => /\ _tasks = pre.tasks
               /\ IF call.op = "update"
                     /\ ~UpdateFieldsValid(call.new_title, call.new_description)
                  THEN IsInvalidInput(ret)
                  ELSE IsNotFound(ret, call.task_id)

\* a valid update of a positive id that a non-empty store does not hold
C15_Witness ==
    /\ Called("update")
    /\ call.task_id >= 1
    /\ UpdateFieldsValid(call.new_title, call.new_description)
    /\ Len(pre.tasks) >= 1
    /\ StorageGet(pre.tasks, call.task_id) = None
    /\ ret = Fail(MsgNotFound(call.task_id))

----------------------------------------------------------------------------
(* C19 *)

\* C19: after clear the store holds zero tasks and the counter is 1, so the
\* next successful add returns id 1.
C19_ClearResets ==
    Called("clear")
    => /\ _tasks = << >>
       /\ StorageCount(_tasks) = 0
       /\ _next_id = 1
       /\ \A title \in TitleInputs, description \in DescriptionInputs :
              LET r == AddTaskExecute(Store, title, description)
              IN  r.ret.ok => /\ r.ret.payload.val.id = 1
                              /\ Ids(r.tasks) = <<1>>

\* a clear of a store that held tasks and had issued every id up to MaxId,
\* after which some add succeeds
C19_Witness ==
    /\ Called("clear")
    /\ Len(pre.tasks) >= 1
    /\ pre.next_id = MaxId + 1
    /\ \E title \in TitleInputs, description \in DescriptionInputs :
           AddTaskExecute(Store, title, description).ret.ok

----------------------------------------------------------------------------
(* C20 *)

\* the two filter values list() knows
KnownFilters == {Some(StrComplete), Some(StrIncomplete)}

\* C20: list with any filter other than 'complete' and 'incomplete' behaves
\* exactly as the unfiltered list: ok=true with all tasks in insertion order,
\* never an error.
C20_UnknownFilterListsAll ==
    (Called("list") /\ call.filter_status \notin KnownFilters)
    => /\ ret = Ok("list", pre.tasks)
       /\ ret = ListTaskExecute(pre, None).ret
       /\ _tasks = pre.tasks

\* list('Complete') on a store holding a completed and an incomplete task
C20_Witness ==
    /\ Called("list")
    /\ call.filter_status = Some(<<"C">> \o Tail(StrComplete))
    /\ \E i, j \in 1..Len(pre.tasks) :
           Completed(pre.tasks[i]) /\ NotCompleted(pre.tasks[j])
    /\ ret.ok /\ Len(ret.payload.val) = Len(pre.tasks)

----------------------------------------------------------------------------
(* C18 *)

\* C18: get_all returns a defensive copy: it holds the stored tasks in their
\* order, and appending to it, removing from it or reordering it changes
\* neither the membership nor the order of the internal list, nor count(),
\* nor what a later get_all returns.
C18_GetAllIsACopy ==
    Called("get_all")
    => /\ call.mutation = "none" => ret.val = pre.tasks
       /\ _tasks = pre.tasks
       /\ StorageCount(_tasks) = StorageCount(pre.tasks)
       /\ StorageGetAll(_tasks).items = pre.tasks

\* the caller has reversed the list it got from a store of two or more tasks
C18_Witness ==
    /\ Called("get_all")
    /\ call.mutation = "reverse"
    /\ Len(pre.tasks) >= 2
    /\ ret.val # pre.tasks
    /\ ret.val = Reverse(pre.tasks)

----------------------------------------------------------------------------
(* Several threads on one store.  Nothing in storage.py or in the agents   *)
(* takes a lock, so two threads that share a TaskStorage interleave at the *)
(* lines of the methods they run.  A step below is one such line (or one   *)
(* uninterrupted call into TaskStorage); a thread's local variables are    *)
(* fields of its record in threads.                                        *)

NoResult == [kind |-> "NoneType"]

\* the stores the threads start from: tasks 1..MaxId were added and some of
\* them deleted again
AddedTask(task_id) == Task(task_id, <<"a", " ", "b">>, <<"d", " ", "e">>)
StoreOf(S) ==
    SelectSeq([i \in 1..MaxId |-> AddedTask(i)], LAMBDA task : task.id \in S)

InitShared ==
    /\ \E S \in SUBSET (1..MaxId) : _tasks = StoreOf(S)
    /\ _next_id = MaxId + 1
    /\ call = Idle
    /\ ret = NoResult
    /\ pre = [tasks |-> _tasks, next_id |-> _next_id]
    /\ issued = {}
    /\ issued_since_clear = {}
    /\ legacy = LegacyEmpty
    /\ all_valid = TRUE

\* a step of a thread changes nothing of the single caller's bookkeeping
ThreadStep ==
    UNCHANGED <<call, ret, pre, issued, issued_since_clear, legacy, all_valid>>

----------------------------------------------------------------------------
(* An update and a delete in two threads *)

\* positions of the updater at which it has written no field yet
BeforeWrite == {"idle", "called", "validated", "fetched"}

InitRace ==
    /\ InitShared
    /\ threads =
         [u |-> [pc |-> "idle", task_id |-> 0, new_title |-> None,
                 new_description |-> None, index |-> 0, task |-> None,
                 result |-> NoResult],
          d |-> [pc |-> "idle", task_id |-> 0, result |-> NoResult,
                 removed |-> FALSE, u_pc |-> "idle"]]

\* UpdateTaskAgent.execute is entered
UpdStart(task_id, new_title, new_description) ==
    /\ threads.u.pc = "idle"
    /\ threads' = [threads EXCEPT !.u.pc = "called",
                                  !.u.task_id = task_id,
                                  !.u.new_title = new_title,
                                  !.u.new_description = new_description]
    /\ UNCHANGED <<_tasks, _next_id>> /\ ThreadStep

\* is_valid, error_msg = self.validate_input(...); if not is_valid: return
UpdValidate ==
    /\ threads.u.pc = "called"
    /\ LET v == UpdateValidateInput(threads.u.task_id, threads.u.new_title,
                                    threads.u.new_description)
       IN  threads' = IF v.is_valid
                      THEN [threads EXCEPT !.u.pc = "validated"]
                      ELSE [threads EXCEPT !.u.pc = "done",
                                           !.u.result = Fail(v.error_msg)]
    /\ UNCHANGED <<_tasks, _next_id>> /\ ThreadStep

\* task = self.task_storage.get(task_id); if task is None: return.
\* One step is one round of the loop of TaskStorage.get, "for task in
\* self._tasks: if task.id == task_id: return task": the list iterator
\* stands at index; past the end of the list as it is now, get returns None;
\* otherwise it takes the element there and moves on.  The list may have
\* shrunk between two rounds.
UpdFetch ==
    /\ threads.u.pc = "validated"
    /\ LET index == threads.u.index
       IN  threads' =
             IF index >= Len(_tasks)
             THEN [threads EXCEPT
                     !.u.pc = "done",
                     !.u.result = Fail(MsgNotFound(threads.u.task_id))]
             ELSE IF _tasks[index + 1].id = threads.u.task_id
             THEN [threads EXCEPT !.u.pc = "fetched",
                                  !.u.index = index + 1,
                                  !.u.task = Some(_tasks[index + 1])]
             ELSE [threads EXCEPT !.u.index = index + 1]
    /\ UNCHANGED <<_tasks, _next_id>> /\ ThreadStep

\* the deleter after the updater's Task object has become obj: what
\* remove() popped and execute returned is that same object when the deleter
\* removed the task with its id
SeenByDeleter(d, obj) ==
    IF d.removed /\ d.task_id = obj.id
    THEN [d EXCEPT !.result = Ok("Task", obj)]
    ELSE d

\* the list after the Task object the updater holds has become obj: the
\* object is the list's element with its id as long as it is in the list
\* (no step of these threads puts another task with that id there), and is
\* reachable from the updater alone once it was removed
WriteThrough(ts, obj) ==
    LET i == IndexOf(ts, obj.id)
    IN  IF i = 0 THEN ts ELSE [ts EXCEPT ![i] = obj]

\* if new_title is not None: task.title = new_title.strip()
UpdWriteTitle ==
    /\ threads.u.pc = "fetched"
    /\ LET obj == IF threads.u.new_title # None
                  THEN [threads.u.task[1] EXCEPT
                          !.title = Strip(threads.u.new_title[1])]
                  ELSE threads.u.task[1]
       IN  /\ threads' = [threads EXCEPT !.u.pc = "title_done",
                                         !.u.task = Some(obj),
                                         !.d = SeenByDeleter(threads.d, obj)]
           /\ _tasks' = WriteThrough(_tasks, obj)
    /\ UNCHANGED _next_id /\ ThreadStep

\* if new_description is not None: task.description = new_description.strip()
UpdWriteDescription ==
    /\ threads.u.pc = "title_done"
    /\ LET obj == IF threads.u.new_description # None
                  THEN [threads.u.task[1] EXCEPT
                          !.description = Strip(threads.u.new_description[1])]
                  ELSE threads.u.task[1]
       IN  /\ threads' = [threads EXCEPT !.u.pc = "written",
                                         !.u.task = Some(obj),
                                         !.d = SeenByDeleter(threads.d, obj)]
           /\ _tasks' = WriteThrough(_tasks, obj)
    /\ UNCHANGED _next_id /\ ThreadStep

\* return True, task
UpdReturn ==
    /\ threads.u.pc = "written"
    /\ threads' = [threads EXCEPT !.u.pc = "done",
                                  !.u.result = Ok("Task", threads.u.task[1])]
    /\ UNCHANGED <<_tasks, _next_id>> /\ ThreadStep

\* DeleteTaskAgent.execute is entered
DelStart(task_id) ==
    /\ threads.d.pc = "idle"
    /\ threads' = [threads EXCEPT !.d.pc = "called", !.d.task_id = task_id]
    /\ UNCHANGED <<_tasks, _next_id>> /\ ThreadStep

\* is_valid, error_msg = self.validate_input(task_id); if not is_valid: return
DelValidate ==
    /\ threads.d.pc = "called"
    /\ LET v == IdValidateInput(threads.d.task_id)
       IN  threads' = IF v.is_valid
                      THEN [threads EXCEPT !.d.pc = "validated"]
                      ELSE [threads EXCEPT !.d.pc = "done",
                                           !.d.result = Fail(v.error_msg)]
    /\ UNCHANGED <<_tasks, _next_id>> /\ ThreadStep

\* removed_task = self.task_storage.remove(task_id) and the return after it.
\* The loop of remove() up to its pop is one step: it reads the list and the
\* ids, which the updater never changes.  removed and u_pc note for the
\* record whether a task was removed and where the updater stood at that
\* moment
DelRemove ==
    /\ threads.d.pc = "validated"
    /\ LET r == StorageRemove(_tasks, threads.d.task_id)
       IN  /\ _tasks' = r.tasks
           /\ threads' =
                [threads EXCEPT
                   !.d.pc = "done",
                   !.d.removed = (r.task # None),
                   !.d.u_pc = threads.u.pc,
                   !.d.result = IF r.task = None
                                THEN Fail(MsgNotFound(threads.d.task_id))
                                ELSE Ok("Task", r.task[1])]
    /\ UNCHANGED _next_id /\ ThreadStep

NextRace ==
    \/ \E task_id \in IdInputs, new_title \in OptTitleInputs,
          new_description \in OptDescriptionInputs :
           UpdStart(task_id, new_title, new_description)
    \/ UpdValidate
    \/ UpdFetch
    \/ UpdWriteTitle
    \/ UpdWriteDescription
    \/ UpdReturn
    \/ \E task_id \in IdInputs : DelStart(task_id)
    \/ DelValidate
    \/ DelRemove

SpecRace == InitRace /\ [][NextRace]_vars

----------------------------------------------------------------------------
(* C16 *)

\* C16: when an update and a delete of the same id interleave, a delete
\* whose removal happens before the update has written makes the update fail
\* with NotFound (or with InvalidInput, if its arguments were invalid
\* anyway): the finished update does not report success.
C16_DeleteWinsRace ==
    ( /\ threads.u.pc = "done"
      /\ threads.d.removed
      /\ threads.d.task_id = threads.u.task_id
      /\ threads.d.u_pc \in BeforeWrite )
    => \/ IsNotFound(threads.u.result, threads.u.task_id)
       \/ IsInvalidInput(threads.u.result)

----------------------------------------------------------------------------
(* Two adds in two threads *)

Adders == {"a1", "a2"}

InitCounter ==
    /\ InitShared
    /\ threads = [t \in Adders |->
                    [pc |-> "idle", title |-> << >>, description |-> << >>,
                     current_id |-> 0, loaded |-> 0, result |-> NoResult]]

\* AddTaskAgent.execute is entered
AddStart(t, title, description) ==
    /\ threads[t].pc = "idle"
    /\ threads' = [threads EXCEPT ![t].pc = "called",
                                  ![t].title = title,
                                  ![t].description = description]
    /\ UNCHANGED <<_tasks, _next_id>> /\ ThreadStep

\* is_valid, error_msg = self.validate_input(...); if not is_valid: return
AddValidate(t) ==
    /\ threads[t].pc = "called"
    /\ LET v == AddValidateInput(threads[t].title, threads[t].description)
       IN  threads' = IF v.is_valid
                      THEN [threads EXCEPT ![t].pc = "validated"]
                      ELSE [threads EXCEPT ![t].pc = "done",
                                           ![t].result = Fail(v.error_msg)]
    /\ UNCHANGED <<_tasks, _next_id>> /\ ThreadStep

\* get_next_id: current_id = self._next_id
AddReadId(t) ==
    /\ threads[t].pc = "validated"
    /\ threads' = [threads EXCEPT ![t].pc = "read",
                                  ![t].current_id = _next_id]
    /\ UNCHANGED <<_tasks, _next_id>> /\ ThreadStep

\* get_next_id: self._next_id += 1, first half: the value of self._next_id
\* is loaded
AddLoadCounter(t) ==
    /\ threads[t].pc = "read"
    /\ threads' = [threads EXCEPT ![t].pc = "loaded",
                                  ![t].loaded = _next_id]
    /\ UNCHANGED <<_tasks, _next_id>> /\ ThreadStep

\* get_next_id: self._next_id += 1, second half: the value loaded, plus 1,
\* is stored into self._next_id
AddStoreCounter(t) ==
    /\ threads[t].pc = "loaded"
    /\ _next_id' = threads[t].loaded + 1
    /\ threads' = [threads EXCEPT ![t].pc = "incremented"]
    /\ UNCHANGED _tasks /\ ThreadStep

\* task = Task(task_id, ...); self.task_storage.add(task); return True, task
AddStore(t) ==
    /\ threads[t].pc = "incremented"
    /\ LET task == Task(threads[t].current_id, Strip(threads[t].title),
                        Strip(threads[t].description))
       IN  /\ _tasks' = StorageAdd(_tasks, task)
           /\ threads' = [threads EXCEPT ![t].pc = "done",
                                         ![t].result = Ok("Task", task)]
    /\ UNCHANGED _next_id /\ ThreadStep

NextCounter ==
    \/ \E t \in Adders, title \in TitleInputs,
          description \in DescriptionInputs : AddStart(t, title, description)
    \/ \E t \in Adders : AddValidate(t)
    \/ \E t \in Adders : AddReadId(t)
    \/ \E t \in Adders : AddLoadCounter(t)
    \/ \E t \in Adders : AddStoreCounter(t)
    \/ \E t \in Adders : AddStore(t)

SpecCounter == InitCounter /\ [][NextCounter]_vars

----------------------------------------------------------------------------
(* C17 *)

\* C17: two concurrent adds whose get_next_id calls interleave at the read
\* and the increment never receive the same id, and the counter ends two
\* greater than it started.
C17_ConcurrentAddsDistinctIds ==
    (\A t \in Adders : threads[t].pc = "done" /\ threads[t].result.ok)
    => /\ threads["a1"].result.payload.val.id
            # threads["a2"].result.payload.val.id
       /\ _next_id = pre.next_id + 2

----------------------------------------------------------------------------
(* C21 *)

\* C21: in every state reached through the agent operations and clear, no
\* two tasks in the store share an id, so that get(id) finds the only task
\* with that id and remove(id) leaves none with it.
C21_NoDuplicateIds ==
    /\ \A i, j \in 1..Len(_tasks) : _tasks[i].id = _tasks[j].id => i = j
    /\ \A task_id \in IdInputs :
           StorageGet(StorageRemove(_tasks, task_id).tasks, task_id) = None

\* an add after a clear has handed out again an id that was issued before,
\* into a store that holds another task
C21_Witness ==
    /\ Called("add") /\ ret.ok
    /\ Len(_tasks) >= 2
    /\ issued_since_clear # issued
    /\ ret.payload.val.id \in issued_since_clear

----------------------------------------------------------------------------
(* C22 *)

\* C22: in every state reached through the agent operations and clear, the
\* id counter is at least 1 and greater than the id of every stored task.
C22_CounterAboveIds ==
    /\ _next_id >= 1
    /\ \A i \in 1..Len(_tasks) : _tasks[i].id < _next_id

\* the task with the highest id was deleted from a store that keeps others:
\* the counter is more than one above the highest stored id
C22_Witness ==
    /\ Called("delete") /\ ret.ok
    /\ Len(_tasks) >= 1
    /\ _next_id > _tasks[Len(_tasks)].id + 1

----------------------------------------------------------------------------
(* C25 *)

\* C25: in every state reached through the agent operations and clear, the
\* ids of the stored tasks increase strictly along the list, so insertion
\* order and ascending-id order coincide for get_all and for list.
C25_IdsIncreasing ==
    /\ \A i, j \in 1..Len(_tasks) : i < j => _tasks[i].id < _tasks[j].id
    /\ LET l == StorageGetAll(_tasks).items
       IN  \A i, j \in 1..Len(l) : i < j => l[i].id < l[j].id
    /\ Called("list")
         => \A i, j \in 1..Len(ret.payload.val) :
                i < j => ret.payload.val[i].id < ret.payload.val[j].id

\* an add after the task in the middle was deleted: ids 1 and 3 are stored
C25_Witness ==
    /\ Called("add") /\ ret.ok
    /\ Len(pre.tasks) >= 1
    /\ Ids(_tasks) = <<1, 3>>

----------------------------------------------------------------------------
(* C24 *)

\* C24: a successful MarkCompleteAgent.execute(id, ...) changes nothing but
\* the completed flag of the task with that id: that task's id, title and
\* description, every other task, the order and membership of the list and
\* the id counter are unchanged; and no operation changes the id of a stored
\* task: the ids after a call are those before it, in their order, less the
\* one deleted, plus the one added, or none after clear.
C24_ToggleFrame ==
    /\ (Called("toggle") /\ ret.ok)
         => /\ Len(_tasks) = Len(pre.tasks)
            /\ _next_id = pre.next_id
            /\ \A i \in 1..Len(pre.tasks) :
                   IF pre.tasks[i].id = call.task_id
                   THEN /\ _tasks[i].id = pre.tasks[i].id
                        /\ _tasks[i].title = pre.tasks[i].title
                        /\ _tasks[i].description = pre.tasks[i].description
                        /\ ret.payload.val = _tasks[i]
                   ELSE _tasks[i] = pre.tasks[i]
    /\ call.op \in {"update", "toggle", "list", "summary", "get", "get_all", "count"}
         => Ids(_tasks) = Ids(pre.tasks)
    /\ Called("add")
         => Ids(_tasks) = IF ret.ok
                          THEN Append(Ids(pre.tasks), ret.payload.val.id)
                          ELSE Ids(pre.tasks)
    /\ Called("delete")
         => Ids(_tasks) = IF ret.ok
                          THEN Ids(Without(pre.tasks,
                                           IndexOf(pre.tasks, call.task_id)))
                          ELSE Ids(pre.tasks)
    /\ Called("clear") => Ids(_tasks) = << >>

\* a successful toggle of the first of three stored tasks, one of the others
\* completed
C24_Witness ==
    /\ Called("toggle") /\ ret.ok
    /\ Len(pre.tasks) = 3
    /\ pre.tasks[1].id = call.task_id
    /\ _tasks[1].completed # pre.tasks[1].completed
    /\ \E i \in 2..3 : pre.tasks[i].completed

----------------------------------------------------------------------------
(* C26 *)

\* the operations that only read the store
ReadOps == {"list", "summary", "get", "get_all", "count"}

\* C26: ListTaskAgent.execute with any filter, get_task_summary,
\* TaskStorage.get, get_all and count leave the store as they found it: the
\* task list, every field of every task and the id counter are the same
\* after the call as before it; get hands out the stored task or None, and
\* count the length of the list.
C26_ReadsLeaveStore ==
    (call.op \in ReadOps)
    => /\ _tasks = pre.tasks
       /\ _next_id = pre.next_id
       /\ Called("get") => ret.val = StorageGet(pre.tasks, call.task_id)
       /\ Called("count") => ret.val = Len(pre.tasks)

\* list('incomplete') has left a completed task out of what it returned, and
\* the store still holds it
C26_Witness ==
    /\ Called("list") /\ call.filter_status = Some(StrIncomplete)
    /\ Len(ret.payload.val) >= 1
    /\ Len(ret.payload.val) < Len(pre.tasks)
    /\ \E i \in 1..Len(_tasks) : _tasks[i].completed

----------------------------------------------------------------------------
(* The legacy module main.py: the same four operations as module-level     *)
(* functions over the globals tasks and next_id.  Below, each call is made *)
(* on both versions, the agents over TaskStorage and the legacy functions, *)
(* starting from the empty state of both; the run is followed up to and    *)
(* including the first call whose arguments the agents' validation         *)
(* rejects.                                                                *)

\* main.py's own Task class
LegacyTask(task_id, title, description) ==
    [id |-> task_id, title |-> title, description |-> description,
     completed |-> FALSE]

\* an add_task that advances next_id before it builds the task
LegacyAddTask_IncrementsFirst(g, title, description) ==
    IF title = << >> \/ Strip(title) = << >>
    THEN Result(g.tasks, g.next_id, None)
    ELSE LET task == LegacyTask(g.next_id + 1, Strip(title), Strip(description))
         IN  Result(Append(g.tasks, task), g.next_id + 1, Some(task))

\* add_task(title, description): the task or None
LegacyAddTask(g, title, description) ==
    IF title = << >> \/ Strip(title) = << >>
    THEN Result(g.tasks, g.next_id, None)
    ELSE LET task == LegacyTask(g.next_id, Strip(title), Strip(description))
         IN  Result(Append(g.tasks, task), g.next_id + 1, Some(task))

\* delete_task(task_id): True or False
LegacyDeleteTask(g, task_id) ==
    LET i == IndexOf(g.tasks, task_id)
    IN  IF i = 0 THEN Result(g.tasks, g.next_id, FALSE)
        ELSE Result(Pop(g.tasks, i), g.next_id, TRUE)

\* update_task(task_id, new_title, new_description): the task or None; a
\* blank new title is skipped and no length is checked
LegacyUpdateTask(g, task_id, new_title, new_description) ==
    LET i == IndexOf(g.tasks, task_id)
        t1 == IF new_title # None /\ Strip(new_title[1]) # << >>
              THEN [g.tasks[i] EXCEPT !.title = Strip(new_title[1])]
              ELSE g.tasks[i]
        t2 == IF new_description # None
              THEN [t1 EXCEPT !.description = Strip(new_description[1])]
              ELSE t1
    IN  IF new_title = None /\ new_description = None
        THEN Result(g.tasks, g.next_id, None)
        ELSE IF i = 0
        THEN Result(g.tasks, g.next_id, None)
        ELSE Result([g.tasks EXCEPT ![i] = t2], g.next_id, Some(t2))

\* mark_complete(task_id): the task or None
LegacyMarkComplete(g, task_id) ==
    LET i == IndexOf(g.tasks, task_id)
        t == [g.tasks[i] EXCEPT !.completed = ~g.tasks[i].completed]
    IN  IF i = 0 THEN Result(g.tasks, g.next_id, None)
        ELSE Result([g.tasks EXCEPT ![i] = t], g.next_id, Some(t))

\* the globals as a call r of a legacy function leaves them
Globals(r) == [tasks |-> r.tasks, next_id |-> r.next_id]

LockstepAdd(title, description) ==
    /\ all_valid
    /\ Call([op |-> "add", title |-> title, description |-> description],
            AddTaskExecute(Store, title, description))
    /\ legacy' = Globals(LegacyAddTask(legacy, title, description))
    /\ all_valid' = AddValidateInput(title, description).is_valid
    /\ UNCHANGED <<issued, issued_since_clear>>

LockstepDelete(task_id) ==
    /\ all_valid
    /\ Call([op |-> "delete", task_id |-> task_id],
            DeleteTaskExecute(Store, task_id))
    /\ legacy' = Globals(LegacyDeleteTask(legacy, task_id))
    /\ all_valid' = IdValidateInput(task_id).is_valid
    /\ UNCHANGED <<issued, issued_since_clear>>

LockstepUpdate(task_id, new_title, new_description) ==
    /\ all_valid
    /\ Call([op |-> "update", task_id |-> task_id, new_title |-> new_title,
             new_description |-> new_description],
            UpdateTaskExecute(Store, task_id, new_title, new_description))
    /\ legacy' = Globals(LegacyUpdateTask(legacy, task_id, new_title,
                                          new_description))
    /\ all_valid' =
         UpdateValidateInput(task_id, new_title, new_description).is_valid
    /\ UNCHANGED <<issued, issued_since_clear>>

\* mark_complete has no mark_as: it is compared with the agent's toggle
LockstepMarkComplete(task_id) ==
    /\ all_valid
    /\ Call([op |-> "toggle", task_id |-> task_id, mark_as |-> None],
            MarkCompleteExecute(Store, task_id, None))
    /\ legacy' = Globals(LegacyMarkComplete(legacy, task_id))
    /\ all_valid' = IdValidateInput(task_id).is_valid
    /\ UNCHANGED <<issued, issued_since_clear>>

NextLegacy ==
    \/ \E title \in TitleInputs, description \in DescriptionInputs :
           _next_id <= MaxId /\ LockstepAdd(title, description)
    \/ \E task_id \in IdInputs : LockstepDelete(task_id)
    \/ \E task_id \in IdInputs, new_title \in OptTitleInputs,
          new_description \in OptDescriptionInputs :
           LockstepUpdate(task_id, new_title, new_description)
    \/ \E task_id \in IdInputs : LockstepMarkComplete(task_id)
    \/ Return

SpecLegacy == Init /\ [][NextLegacy]_vars

----------------------------------------------------------------------------
(* C23 *)

\* C23: as long as every call passed the agents' validation, the legacy
\* functions add_task, delete_task, update_task and mark_complete and the
\* agent operations, run side by side from the empty state, have the same
\* task list (ids, titles, descriptions, completed flags, order) and the
\* same id counter after every step.
C23_LegacyAgrees ==
    all_valid => /\ legacy.tasks = _tasks
                 /\ legacy.next_id = _next_id

\* a valid update has changed the title of a task on both sides, in a store
\* from which a task was deleted and in which a task is completed
C23_Witness ==
    /\ all_valid
    /\ Called("update") /\ ret.ok
    /\ call.new_title # None
    /\ _tasks # pre.tasks
    /\ Ids(legacy.tasks) = <<1, 3>>
    /\ \E i \in 1..Len(legacy.tasks) : legacy.tasks[i].completed

----------------------------------------------------------------------------
(* TaskStorage called directly.  The agents are the only callers of add,   *)
(* get_next_id and remove in the application, and Spec is the store as the *)
(* agents and clear drive it.  The class is public all the same: below are *)
(* its seven methods called one by one, with no agent in between.  add     *)
(* takes whatever task it is given: no validation, no trimming, no check   *)
(* of the id against the list or the counter.                              *)

\* the tasks a caller hands to add: any id, title trimmed or not
TaskInputs ==
    { Task(task_id, title, << >>) :
        task_id \in 1..MaxId,
        title \in { <<" ", "a", " ", "b", "\n">>, <<"a", " ", "b">> } }

\* TaskStorage.add(task): the task is appended and returned
StorageAddCall(task) ==
    /\ Len(_tasks) < MaxId
    /\ Call([op |-> "storage.add", task |-> task],
            Result(StorageAdd(_tasks, task), _next_id,
                   [kind |-> "Task", val |-> task]))
    /\ UNCHANGED <<issued, issued_since_clear, legacy, all_valid>>

\* TaskStorage.get_next_id(): the counter is returned and advanced
StorageGetNextIdCall ==
    /\ _next_id <= MaxId
    /\ LET g == StorageGetNextId(_next_id)
       IN  Call([op |-> "storage.get_next_id"],
                Result(_tasks, g.next_id,
                       [kind |-> "int", val |-> g.current_id]))
    /\ UNCHANGED <<issued, issued_since_clear, legacy, all_valid>>

\* TaskStorage.remove(task_id): the first task with this id is taken out and
\* returned, None when there is none
StorageRemoveCall(task_id) ==
    /\ LET r == StorageRemove(_tasks, task_id)
       IN  Call([op |-> "storage.remove", task_id |-> task_id],
                Result(r.tasks, _next_id,
                       [kind |-> "Optional[Task]", val |-> r.task]))
    /\ UNCHANGED <<issued, issued_since_clear, legacy, all_valid>>

NextStorage ==
    \/ \E task \in TaskInputs : StorageAddCall(task)
    \/ StorageGetNextIdCall
    \/ \E task_id \in IdInputs : StorageRemoveCall(task_id)
    \/ \E task_id \in IdInputs : GetTask(task_id)
    \/ GetAll
    \/ Count
    \/ Clear
    \/ Return

SpecStorage == Init /\ [][NextStorage]_vars

====
